---- MODULE Spec2Model ----
(***************************************************************************)
(* Model of the two programs of the repository:                            *)
(*   sweep.py     drains every catalog token, then the native currency,    *)
(*                from the mnemonic-derived account to DEST_WALLET;        *)
(*   transfer.py  transfers a requested quantity of one token.             *)
(* Each program is a single sequential thread; pc is its position.  The    *)
(* remote node (transaction count, transaction pool, mined transactions)   *)
(* and the replies of every RPC call are the environment.                  *)
(***************************************************************************)
EXTENDS Integers, Sequences, FiniteSets, TLC

\* ---------------------------------------------------------------- bounds
\* longest catalog explored
MaxTokens == 2
\* 10^EtherDecimals stands for the 10^18 wei of one ether (scaled down so
\* that amounts fit the checker's integers)
EtherDecimals == 5

\* gas of a plain native transfer (sweep.py: gas = 21000)
GasUnits == 21000

RECURSIVE Pow10(_)
Pow10(n) == IF n = 0 THEN 1 ELSE 10 * Pow10(n - 1)

WeiPerEther == Pow10(EtherDecimals)

\* Web3.to_wei(q, "ether"): the quantity times one ether, whatever the token
ToWei(q) == q * WeiPerEther

\* w3.from_wei(balance, "ether") < 1, on integers
BelowOneEther(balance) == balance < WeiPerEther

\* float(sys.argv[2]) raises ValueError unless the argument writes a number
IsFloat(s) == s \in {"0", "1", "2", "-1"}

\* float(sys.argv[2]): the number written by the argument
ParseFloat(s) ==
    CASE s = "0" -> 0
      [] s = "1" -> 1
      [] s = "2" -> 2
      [] s = "-1" -> 0 - 1

\* mutant: the letter case is kept
LowerKeepsCase(s) == s

\* str.lower() on the symbols of the model
Lower(s) ==
    CASE s = "TKA" -> "tka"
      [] s = "Tka" -> "tka"
      [] s = "TKB" -> "tkb"
      [] OTHER -> s

\* ---------------------------------------------------------------- inputs
Modes == {"sweep", "transfer"}

\* a local not yet assigned, a field not present
Null == -1

\* decimals of a token.yml entry that is not an 18-decimals token
FewDecimals == 3

\* token.yml entries: address "none" is an entry without address, "bad" an
\* address Web3.to_checksum_address rejects; decimals Null is an entry
\* without decimals
Tokens ==
    { [symbol |-> "TKA", address |-> "ok", decimals |-> Null],
      [symbol |-> "TKB", address |-> "ok", decimals |-> FewDecimals],
      [symbol |-> "TKB", address |-> "bad", decimals |-> Null],
      [symbol |-> "tka", address |-> "none", decimals |-> Null] }

\* decimals = token.get("decimals", 18)
Decimals(token) == IF token.decimals = Null THEN EtherDecimals ELSE token.decimals

\* human_balance = balance / (10**decimals): the scale the balance is shown in
DisplayScale(token) == Pow10(Decimals(token))

\* sweep.py uses the decimals of an entry for nothing but the balance it
\* prints: its catalogs are drawn from the entries without decimals
TokensOf(m) == IF m = "sweep" THEN { t \in Tokens : t.decimals = Null } ELSE Tokens

Catalogs(m) == UNION { [1..n -> TokensOf(m)] : n \in 0..MaxTokens }

\* the settings of .env each program requires
Required(m) ==
    IF m = "sweep" THEN {"DEST_WALLET", "RPC_URL", "MNEMONIC"}
    ELSE {"MNEMONIC", "RPC_URL", "PRIVATE_KEY"}

\* sys.argv[1:]
Argvs(m) ==
    IF m = "sweep" THEN { <<>>, <<"force">>, <<"fast">> }
    ELSE { <<>>, <<"tka">>, <<"TKA", "0">>, <<"tka", "1">>, <<"Tka", "2">>,
           <<"tkb", "1">>, <<"tkc", "1">>, <<"tka", "x">>, <<"TKA", "-1">> }

\* replies of the node to balance and fee-price queries
TokenBalances == {0, WeiPerEther, 2 * WeiPerEther}
NativeBalances == {0, GasUnits, WeiPerEther}
FeePrices == {1, 2}
GasEstimates == {50000}

NoPrint == [asset |-> Null, balance |-> Null, out |-> ""]
NoTx == [amount |-> Null, gas |-> Null, gasPrice |-> Null, nonce |-> Null]
NoPlan == [key |-> "", balance |-> Null, proceed |-> FALSE, amount |-> Null,
           feePrice |-> Null]

VARIABLES
    mode,       \* which program runs
    env,        \* the settings present in .env
    catalog,    \* tokens of token.yml
    argv,       \* command-line arguments
    pc,         \* position of the program
    exit,       \* process exit status, Null while running
    idx,        \* sweep: index of the token of the for loop; transfer: of the found token
    force,      \* drain_eth's parameter
    balance,    \* local: balance read in this attempt
    quantity,   \* local of transfer_token: transfer_quantity
    nonce,      \* local: nonce read in this attempt
    gas_price,  \* local: fee price read in this attempt
    tx,         \* local: the transaction dictionary
    signed,     \* local: a signed transaction exists
    tx_hash,    \* local: id of the transaction sent, Null if none
    chainCount, \* node: w3.eth.get_transaction_count of the account
    pool,       \* node: pending transactions of the account
    mined,      \* node: ids of the mined transactions
    attempts,   \* history: assets whose attempt was started, 0 is the native currency
    sent,       \* history: calls of send_raw_transaction
    netCalls,   \* history: RPC calls made, as <<call, asset>>
    printed,    \* console: the balance and the outcome last printed, per attempt
    planned,    \* history: the last decision taken for an asset, with the
                \* balance it was taken on and, when a draft was built, its amount
    lastFailed  \* history: nonce of the last attempt that ended while building or
                \* signing, until a later attempt has read its nonce; else Null

vars == << mode, env, catalog, argv, pc, exit, idx, force, balance, quantity,
           nonce, gas_price, tx, signed, tx_hash, chainCount, pool, mined,
           attempts, sent, netCalls, printed, planned, lastFailed >>

locals == << balance, quantity, nonce, gas_price, tx, signed, tx_hash >>
node == << chainCount, pool, mined >>
inputs == << mode, env, catalog, argv >>
history == << attempts, sent, netCalls, printed, planned, lastFailed >>

Start(m) ==
    /\ mode = m
    /\ env \in { Required(m) } \cup { Required(m) \ {s} : s \in Required(m) }
    /\ catalog \in Catalogs(m)
    /\ argv \in Argvs(m)
    /\ pc = "start"
    /\ exit = Null
    /\ idx = 0
    /\ force = FALSE
    /\ balance = Null
    /\ quantity = Null
    /\ nonce = Null
    /\ gas_price = Null
    /\ tx = NoTx
    /\ signed = FALSE
    /\ tx_hash = Null
    /\ chainCount = 0
    /\ pool = {}
    /\ mined = {}
    /\ attempts = <<>>
    /\ sent = <<>>
    /\ netCalls = {}
    /\ printed = NoPrint
    /\ planned = NoPlan
    /\ lastFailed = Null

Init == \E m \in Modes : Start(m)

\* which function the program is in, from the loop index of main
InToken == mode = "sweep" /\ idx \in 1..Len(catalog)
InEth == mode = "sweep" /\ idx = Len(catalog) + 1
InXfer == mode = "transfer"

\* the asset of the current attempt: the token's catalog index, 0 for native
Asset == IF InEth THEN 0 ELSE idx

\* an RPC call is recorded with the asset it is made for (0: native or none)
Called(call, asset) == netCalls' = netCalls \cup { <<call, asset>> }

\* an uncaught exception, or sys.exit(1): the process ends with status 1
Abort ==
    /\ pc' = "aborted"
    /\ exit' = 1
    /\ UNCHANGED << planned, lastFailed >>

ResetLocals ==
    /\ balance' = Null
    /\ quantity' = Null
    /\ nonce' = Null
    /\ gas_price' = Null
    /\ tx' = NoTx
    /\ signed' = FALSE
    /\ tx_hash' = Null

\* print(f"Balance: ...") of the balance just read
Balance(b) == [asset |-> Asset, balance |-> b, out |-> ""]

\* the asset a decision is about: the token contract, or the native currency
PlanKey == IF InEth THEN "ETH" ELSE catalog[idx].address

\* the decision of the attempt that returns with outcome out on balance b:
\* a skip for want of balance, or the amount of the draft that was built
Plan(b, out) ==
    IF out = "no_balance"
    THEN [key |-> PlanKey, balance |-> b, proceed |-> FALSE, amount |-> Null,
          feePrice |-> Null]
    ELSE IF tx # NoTx
    THEN [key |-> PlanKey, balance |-> b, proceed |-> TRUE, amount |-> tx.amount,
          feePrice |-> tx.gasPrice]
    ELSE planned

\* print the outcome and return from drain_token / drain_eth / transfer_token:
\* drain_token returns into the loop of main (the pacing sleep), the other
\* two into the end of main
ReturnWith(b, out) ==
    /\ ResetLocals
    /\ lastFailed' = IF nonce = Null THEN lastFailed
                     ELSE IF out \in {"build_error", "sign_error"} THEN nonce
                     ELSE Null
    /\ printed' = [asset |-> Asset, balance |-> b, out |-> out]
    /\ planned' = Plan(b, out)
    /\ IF InToken
       THEN pc' = "sleep" /\ exit' = exit
       ELSE pc' = "done" /\ exit' = 0

Return(out) == ReturnWith(balance, out)

\* ------------------------------------------------------- module-level set-up
\* a message that is about no asset: print(...) of main before sys.exit(1),
\* or the message of an exception raised at module level
Complaint(out) == [asset |-> Null, balance |-> Null, out |-> out]

\* mutant: the settings are not looked at before the endpoint is contacted
LoadConfigUnchecked ==
    /\ pc = "start"
    /\ IF Len(catalog) = 0
       THEN Abort /\ printed' = Complaint("config_error")
       ELSE pc' = "connect" /\ UNCHANGED << planned, lastFailed, exit, printed >>
    /\ UNCHANGED << inputs, idx, force, locals, node, attempts, sent, netCalls >>

\* sweep.py 17-32, transfer.py 18-42: settings and catalog, no network; a
\* missing setting or an empty catalog raises
LoadConfig ==
    /\ pc = "start"
    /\ IF env # Required(mode) \/ Len(catalog) = 0
       THEN Abort /\ printed' = Complaint("config_error")
       ELSE pc' = "connect" /\ UNCHANGED << planned, lastFailed, exit, printed >>
    /\ UNCHANGED << inputs, idx, force, locals, node, attempts, sent, netCalls >>

\* w3.is_connected(); raise Exception("Failed to connect to the RPC endpoint.")
Connect ==
    /\ pc = "connect"
    /\ Called("is_connected", 0)
    /\ \E up \in BOOLEAN :
          IF up THEN pc' = "chain_id" /\ UNCHANGED << planned, lastFailed, exit, printed >>
          ELSE Abort /\ printed' = Complaint("connect_error")
    /\ UNCHANGED << inputs, idx, force, locals, node, attempts, sent >>

\* chain_id = w3.eth.chain_id
ChainId ==
    /\ pc = "chain_id"
    /\ Called("chain_id", 0)
    /\ \E ok \in BOOLEAN :
          IF ok THEN pc' = "main" /\ UNCHANGED << planned, lastFailed, exit >> ELSE Abort
    /\ UNCHANGED << inputs, idx, force, locals, node, attempts, sent, printed >>

\* ------------------------------------------------------------ the node
\* the node mines the pending transaction whose nonce is the account's count,
\* at any time while the program runs
NodeMine ==
    /\ pc \notin {"done", "aborted"}
    /\ \E p \in pool :
          /\ p.nonce = chainCount
          /\ pool' = pool \ {p}
          /\ mined' = mined \cup {p.id}
          /\ chainCount' = chainCount + 1
    /\ UNCHANGED << inputs, pc, exit, idx, force, locals, history >>

\* the node takes a transaction whose nonce is not used up, and replaces a
\* pending one of the same nonce only for a higher fee price
Acceptable(t) ==
    /\ t.nonce >= chainCount
    /\ \A p \in pool : p.nonce = t.nonce => t.gasPrice > p.gasPrice

\* ------------------------------------------ stages shared by the functions
\* nonce = w3.eth.get_transaction_count(address): the node's count
ReadNonce ==
    /\ pc = "nonce"
    /\ Called("get_transaction_count", Asset)
    /\ \E ok \in BOOLEAN :
          IF ok
          THEN /\ nonce' = chainCount
               /\ pc' = "price"
               /\ UNCHANGED << planned, lastFailed, exit, balance, quantity, gas_price, tx, signed, tx_hash, printed >>
          ELSE Return("build_error")
    /\ UNCHANGED << inputs, idx, force, node, attempts, sent >>

\* gas_price = w3.eth.gas_price
ReadPrice ==
    /\ pc = "price"
    /\ Called("gas_price", Asset)
    /\ \E g \in FeePrices \cup {Null} :
          IF g # Null
          THEN /\ gas_price' = g
               /\ pc' = "build"
               /\ UNCHANGED << planned, lastFailed, exit, balance, quantity, nonce, tx, signed, tx_hash, printed >>
          ELSE Return("build_error")
    /\ UNCHANGED << inputs, idx, force, node, attempts, sent >>

\* mutant: the token amount is reduced by the fee price of the attempt
TokenDraftLessPrice(a, n, g) == [amount |-> a - g, gas |-> Null, gasPrice |-> g, nonce |-> n]

\* mutant: the transfer call carries one unit less than the amount
TokenDraftShort(a, n, g) == [amount |-> a - 1, gas |-> Null, gasPrice |-> g, nonce |-> n]

\* the transaction dictionary of a token transfer of amount a
TokenDraft(a, n, g) == [amount |-> a, gas |-> Null, gasPrice |-> g, nonce |-> n]

\* mutant: the whole balance is sent, the fee is not set aside
EthDraftWholeBalance(b, n, g) ==
    [amount |-> b, gas |-> GasUnits, gasPrice |-> g, nonce |-> n]

\* the transaction dictionary of drain_eth
EthDraft(b, n, g) ==
    [amount |-> b - GasUnits * g, gas |-> GasUnits, gasPrice |-> g, nonce |-> n]

\* estimated_gas = w3.eth.estimate_gas(tx); tx["gas"] = estimated_gas
EstimateGas ==
    /\ pc = "estimate"
    /\ Called("estimate_gas", Asset)
    /\ \E e \in GasEstimates \cup {Null} :
          IF e # Null
          THEN /\ tx' = [tx EXCEPT !.gas = e]
               /\ pc' = "sign"
               /\ UNCHANGED << planned, lastFailed, exit, balance, quantity, nonce, gas_price, signed, tx_hash, printed >>
          ELSE Return("build_error")
    /\ UNCHANGED << inputs, idx, force, node, attempts, sent >>

\* mutant: the signer's exception is swallowed and the attempt goes on
SignTxSwallowed ==
    /\ pc = "sign"
    /\ \E ok \in BOOLEAN :
          /\ ok => tx.amount >= 0
          /\ signed' = ok
          /\ pc' = "send"
          /\ UNCHANGED << planned, lastFailed, exit, balance, quantity, nonce, gas_price, tx, tx_hash, printed >>
    /\ UNCHANGED << inputs, idx, force, node, attempts, sent, netCalls >>

\* signed_tx = account.sign_transaction(tx); the signer raises for a negative
\* value, which the transaction encoding cannot hold
SignTx ==
    /\ pc = "sign"
    /\ \E ok \in BOOLEAN :
          /\ ok => tx.amount >= 0
          /\ IF ok
             THEN /\ signed' = TRUE
                  /\ pc' = "send"
                  /\ UNCHANGED << planned, lastFailed, exit, balance, quantity, nonce, gas_price, tx, tx_hash, printed >>
             ELSE Return("sign_error")
    /\ UNCHANGED << inputs, idx, force, node, attempts, sent, netCalls >>

\* tx_hash = w3.eth.send_raw_transaction(signed_tx.raw_transaction): the node
\* takes the transaction and the call returns its hash ("hash"), the node
\* refuses it ("rejected"), or the node takes it and the reply is lost ("lost")
SendTx ==
    /\ pc = "send"
    /\ Called("send_raw_transaction", Asset)
    /\ \E reply \in {"hash", "rejected", "lost"} :
          LET id == Len(sent) + 1 IN
          /\ reply # "rejected" => Acceptable(tx)
          /\ sent' = Append(sent, [asset |-> Asset, nonce |-> tx.nonce,
                                   amount |-> tx.amount, reply |-> reply])
          /\ pool' = IF reply = "rejected" THEN pool
                     ELSE { p \in pool : p.nonce # tx.nonce }
                          \cup { [id |-> id, nonce |-> tx.nonce, gasPrice |-> tx.gasPrice] }
          /\ IF reply = "hash"
             THEN /\ tx_hash' = id
                  /\ pc' = "wait"
                  /\ UNCHANGED << planned, lastFailed, exit, balance, quantity, nonce, gas_price, tx, signed, printed >>
             ELSE Return("send_error")
    /\ UNCHANGED << inputs, idx, force, chainCount, mined, attempts >>

\* mutant: a receipt wait that times out sends the signed transaction again
WaitReceiptResubmits ==
    /\ pc = "wait"
    /\ Called("wait_for_transaction_receipt", Asset)
    /\ \E r \in {"succeeded", "failed", "receipt_error"} :
          /\ r # "receipt_error" => tx_hash \in mined
          /\ IF r = "receipt_error"
             THEN /\ pc' = "send"
                  /\ tx_hash' = Null
                  /\ UNCHANGED << planned, lastFailed, exit, balance, quantity, nonce, gas_price, tx, signed, printed >>
             ELSE Return(r)
    /\ UNCHANGED << inputs, idx, force, node, attempts, sent >>

\* receipt = w3.eth.wait_for_transaction_receipt(tx_hash, timeout=180): a
\* receipt exists once the transaction is mined; otherwise the wait raises
WaitReceipt ==
    /\ pc = "wait"
    /\ Called("wait_for_transaction_receipt", Asset)
    /\ \E r \in {"succeeded", "failed", "receipt_error"} :
          /\ r # "receipt_error" => tx_hash \in mined
          /\ Return(r)
    /\ UNCHANGED << inputs, idx, force, node, attempts, sent >>

\* ----------------------------------------------------------- sweep.py main
\* main: the for loop calls drain_token for the next catalog entry
CallDrainToken ==
    /\ mode = "sweep"
    /\ pc = "main"
    /\ idx < Len(catalog)
    /\ idx' = idx + 1
    /\ attempts' = Append(attempts, idx + 1)
    /\ pc' = "entry"
    /\ UNCHANGED << inputs, exit, force, locals, node, sent, netCalls, printed, planned, lastFailed >>

\* main: time.sleep(0.5) after drain_token returned
Sleep ==
    /\ mode = "sweep"
    /\ pc = "sleep"
    /\ pc' = "main"
    /\ UNCHANGED << inputs, exit, idx, force, locals, node, history >>

\* the force flag main passes to drain_eth
ForceFlag(args) == Len(args) > 0 /\ args[1] = "force"

\* main: after the loop, drain_eth(force=True) or drain_eth()
CallDrainEth ==
    /\ mode = "sweep"
    /\ pc = "main"
    /\ idx = Len(catalog)
    /\ idx' = idx + 1
    /\ force' = ForceFlag(argv)
    /\ attempts' = Append(attempts, 0)
    /\ pc' = "balance"
    /\ UNCHANGED << inputs, exit, locals, node, sent, netCalls, printed, planned, lastFailed >>

\* ------------------------------------------------------------ drain_token
\* mutant: the address is not looked at before the contract is queried
TokenEntryUnchecked ==
    /\ InToken
    /\ pc = "entry"
    /\ CASE catalog[idx].address = "bad" -> Abort /\ UNCHANGED << locals, printed >>
         [] OTHER -> pc' = "balance" /\ UNCHANGED << planned, lastFailed, exit, locals, printed >>
    /\ UNCHANGED << inputs, idx, force, node, attempts, sent, netCalls >>

\* an entry without address is skipped; Web3.to_checksum_address(token_address)
\* is outside every try block, so a malformed address raises out of main
TokenEntry ==
    /\ InToken
    /\ pc = "entry"
    /\ CASE catalog[idx].address = "none" -> Return("no_address")
         [] catalog[idx].address = "bad" -> Abort /\ UNCHANGED << locals, printed >>
         [] OTHER -> pc' = "balance" /\ UNCHANGED << planned, lastFailed, exit, locals, printed >>
    /\ UNCHANGED << inputs, idx, force, node, attempts, sent, netCalls >>

\* balance = contract.functions.balanceOf(my_address).call(); zero is skipped
TokenBalance ==
    /\ InToken
    /\ pc = "balance"
    /\ Called("balanceOf", Asset)
    /\ \E b \in TokenBalances \cup {Null} :
          CASE b = Null -> Return("balance_error")
            [] b = 0 -> ReturnWith(b, "no_balance")
            [] OTHER -> /\ balance' = b
                        /\ printed' = Balance(b)
                        /\ pc' = "nonce"
                        /\ UNCHANGED << planned, lastFailed, exit, quantity, nonce, gas_price, tx, signed, tx_hash >>
    /\ UNCHANGED << inputs, idx, force, node, attempts, sent >>

TokenNonce == InToken /\ ReadNonce

TokenPrice == InToken /\ ReadPrice

\* tx = contract.functions.transfer(DEST_WALLET, balance).buildTransaction(...);
\* it raises for a malformed DEST_WALLET, and wherever the installed web3 no
\* longer has the names toChecksumAddress and buildTransaction
TokenBuild ==
    /\ InToken
    /\ pc = "build"
    /\ \E ok \in BOOLEAN :
          IF ok
          THEN LET t == TokenDraft(balance, nonce, gas_price) IN
               /\ tx' = t
               /\ pc' = "estimate"
               /\ UNCHANGED << planned, lastFailed, exit, balance, quantity, nonce, gas_price, signed, tx_hash, printed >>
          ELSE Return("build_error")
    /\ UNCHANGED << inputs, idx, force, node, attempts, sent, netCalls >>

TokenEstimate == InToken /\ EstimateGas

TokenSign == InToken /\ SignTx

TokenSend == InToken /\ SendTx

TokenWait == InToken /\ WaitReceipt

\* -------------------------------------------------------------- drain_eth
\* mutant: force also lifts the zero-balance check (and binds before or)
EthSkipsForceFirst(b, f) == (b = 0 \/ BelowOneEther(b)) /\ ~f

\* balance = w3.eth.get_balance(my_address), outside every try block;
\* if balance == 0 or human_balance < 1 and not force: skip
EthSkips(b, f) == b = 0 \/ (BelowOneEther(b) /\ ~f)

EthBalance ==
    /\ InEth
    /\ pc = "balance"
    /\ Called("get_balance", Asset)
    /\ \E b \in NativeBalances \cup {Null} :
          CASE b = Null -> Abort /\ UNCHANGED << locals, printed >>
            [] b # Null /\ EthSkips(b, force) -> ReturnWith(b, "no_balance")
            [] OTHER -> /\ balance' = b
                        /\ printed' = Balance(b)
                        /\ pc' = "nonce"
                        /\ UNCHANGED << planned, lastFailed, exit, quantity, nonce, gas_price, tx, signed, tx_hash >>
    /\ UNCHANGED << inputs, idx, force, node, attempts, sent >>

EthNonce == InEth /\ ReadNonce

EthPrice == InEth /\ ReadPrice

\* gas = 21000; balance_less_gas = balance - gas * gas_price; tx = {...};
\* Web3.to_checksum_address(DEST_WALLET) may raise
EthBuild ==
    /\ InEth
    /\ pc = "build"
    /\ \E ok \in BOOLEAN :
          IF ok
          THEN LET t == EthDraft(balance, nonce, gas_price) IN
               /\ tx' = t
               /\ pc' = "sign"
               /\ UNCHANGED << planned, lastFailed, exit, balance, quantity, nonce, gas_price, signed, tx_hash, printed >>
          ELSE Return("build_error")
    /\ UNCHANGED << inputs, idx, force, node, attempts, sent, netCalls >>

EthSign == InEth /\ SignTx

EthSend == InEth /\ SendTx

EthWait == InEth /\ WaitReceipt

\* --------------------------------------------------------- transfer.py main
RECURSIVE FindFrom(_, _, _)
FindFrom(cat, symbol, i) ==
    IF i > Len(cat) THEN 0
    ELSE IF Lower(cat[i].symbol) = Lower(symbol) THEN i
    ELSE FindFrom(cat, symbol, i + 1)

\* find_token_by_symbol: index of the first entry of that symbol, 0 for None
find_token_by_symbol(symbol) == FindFrom(catalog, symbol, 1)

\* main: usage check, float(sys.argv[2]), look-up, transfer_token(token, q)
MainTransfer ==
    /\ mode = "transfer"
    /\ pc = "main"
    /\ IF Len(argv) < 2
       THEN Abort /\ printed' = Complaint("usage") /\ UNCHANGED << idx, attempts >>
       ELSE IF ~IsFloat(argv[2])
       THEN Abort /\ UNCHANGED << idx, attempts, printed >>
       ELSE IF find_token_by_symbol(argv[1]) = 0
       THEN Abort /\ printed' = Complaint("not_found") /\ UNCHANGED << idx, attempts >>
       ELSE /\ idx' = find_token_by_symbol(argv[1])
            /\ attempts' = Append(attempts, find_token_by_symbol(argv[1]))
            /\ pc' = "entry"
            /\ UNCHANGED << planned, lastFailed, exit, printed >>
    /\ UNCHANGED << inputs, force, locals, node, sent, netCalls >>

\* ---------------------------------------------------------- transfer_token
XferEntry ==
    /\ InXfer
    /\ pc = "entry"
    /\ CASE catalog[idx].address = "none" -> Return("no_address")
         [] catalog[idx].address = "bad" -> Abort /\ UNCHANGED << locals, printed >>
         [] OTHER -> pc' = "balance" /\ UNCHANGED << planned, lastFailed, exit, locals, printed >>
    /\ UNCHANGED << inputs, idx, force, node, attempts, sent, netCalls >>

\* mutant: the comparison is turned round
XferSkipsReversed(b, q) == q < b

\* if balance < transfer_quantity: "Insufficient balance", return
XferSkips(b, q) == b < q

\* balance = balanceOf(sender_address); transfer_quantity = to_wei(quantity),
\* which is outside every try block and raises for a negative quantity
XferBalance ==
    /\ InXfer
    /\ pc = "balance"
    /\ Called("balanceOf", Asset)
    /\ \E b \in TokenBalances \cup {Null} :
          LET q == ToWei(ParseFloat(argv[2])) IN
          CASE b = Null -> Return("balance_error")
            [] b # Null /\ q < 0 ->
                  /\ Abort
                  /\ printed' = Balance(b)
                  /\ UNCHANGED locals
            [] b # Null /\ q >= 0 /\ XferSkips(b, q) -> ReturnWith(b, "no_balance")
            [] OTHER -> /\ balance' = b
                        /\ quantity' = q
                        /\ printed' = Balance(b)
                        /\ pc' = "nonce"
                        /\ UNCHANGED << planned, lastFailed, exit, nonce, gas_price, tx, signed, tx_hash >>
    /\ UNCHANGED << inputs, idx, force, node, attempts, sent >>

XferNonce == InXfer /\ ReadNonce

XferPrice == InXfer /\ ReadPrice

\* tx = contract.functions.transfer(DEST_WALLET, transfer_quantity).build_transaction(...)
XferBuild ==
    /\ InXfer
    /\ pc = "build"
    /\ \E ok \in BOOLEAN :
          IF ok
          THEN LET t == TokenDraft(quantity, nonce, gas_price) IN
               /\ tx' = t
               /\ pc' = "estimate"
               /\ UNCHANGED << planned, lastFailed, exit, balance, quantity, nonce, gas_price, signed, tx_hash, printed >>
          ELSE Return("build_error")
    /\ UNCHANGED << inputs, idx, force, node, attempts, sent, netCalls >>

XferEstimate == InXfer /\ EstimateGas

XferSign == InXfer /\ SignTx

XferSend == InXfer /\ SendTx

XferWait == InXfer /\ WaitReceipt

\* sweep.py is started again, with the same settings, catalog and arguments,
\* after a run in which the node took no transaction (so that no balance moved)
Rerun ==
    /\ mode = "sweep"
    /\ pc = "done"
    /\ \A i \in DOMAIN sent : sent[i].reply = "rejected"
    /\ pc' = "start"
    /\ exit' = Null
    /\ idx' = 0
    /\ force' = FALSE
    /\ attempts' = <<>>
    /\ sent' = <<>>
    /\ netCalls' = {}
    /\ printed' = NoPrint
    /\ lastFailed' = Null
    /\ UNCHANGED << inputs, locals, node, planned >>

Setup ==
    \/ LoadConfig
    \/ Connect
    \/ ChainId
    \/ NodeMine

SweepNext ==
    \/ Setup
    \/ CallDrainToken
    \/ Sleep
    \/ CallDrainEth
    \/ TokenEntry
    \/ TokenBalance
    \/ TokenNonce
    \/ TokenPrice
    \/ TokenBuild
    \/ TokenEstimate
    \/ TokenSign
    \/ TokenSend
    \/ TokenWait
    \/ EthBalance
    \/ EthNonce
    \/ EthPrice
    \/ EthBuild
    \/ EthSign
    \/ EthSend
    \/ EthWait

TransferNext ==
    \/ Setup
    \/ MainTransfer
    \/ XferEntry
    \/ XferBalance
    \/ XferNonce
    \/ XferPrice
    \/ XferBuild
    \/ XferEstimate
    \/ XferSign
    \/ XferSend
    \/ XferWait

Next == SweepNext \/ TransferNext

\* a run of sweep.py
SweepSpec == Start("sweep") /\ [][SweepNext]_vars

\* a run of transfer.py
TransferSpec == Start("transfer") /\ [][TransferNext]_vars

\* a run of either program
Spec == Init /\ [][Next]_vars

\* a step of the program itself: every statement moves on to the next one,
\* the node's steps leave the program where it is
ProgramStep == SweepNext /\ pc' # pc

\* a run of sweep.py in which every call returns or raises: the interpreter
\* always executes the next statement, and the receipt wait ends after its
\* 180 s at the latest
FairSweepSpec == Start("sweep") /\ [][SweepNext]_vars /\ WF_vars(ProgramStep)

\* runs of sweep.py, one after the other
RerunNext == SweepNext \/ Rerun

RerunSpec == Start("sweep") /\ [][RerunNext]_vars

\* ================================================================ properties
\* the stages of an attempt after its balance check
AfterBalance == {"nonce", "price", "build", "estimate", "sign", "send", "wait"}

\* the process has ended
Ended == pc \in {"done", "aborted"}

\* the attempts of a complete sweep run: every token in catalog order, then
\* the native currency
FullRun == [i \in 1..(Len(catalog) + 1) |-> IF i <= Len(catalog) THEN i ELSE 0]

\* C1: in a sweep run, no failure inside one asset's attempt aborts the run:
\* once the run has ended, every token of the catalog and the native currency
\* have been attempted.
C1_FailureNeverAbortsRun ==
    (mode = "sweep" /\ Ended /\ Len(attempts) > 0) => attempts = FullRun

\* C2: of two successive successful broadcasts of one sweep run (the call
\* returned a hash, no successful broadcast between them), the later carries
\* the earlier's nonce plus one.
C2_NonceMonotonic ==
    mode = "sweep" =>
        \A i, j \in DOMAIN sent :
            ( /\ i < j
              /\ sent[i].reply = "hash"
              /\ sent[j].reply = "hash"
              /\ \A k \in (i + 1)..(j - 1) : sent[k].reply # "hash" )
            => sent[j].nonce = sent[i].nonce + 1

\* C3: after a broadcast whose call raised although the node took the
\* transaction, every later attempt uses a greater nonce, and no two
\* transactions the node took in one run carry the same nonce.
C3_NoDuplicateNonce ==
    mode = "sweep" =>
        /\ \A i \in DOMAIN sent :
              sent[i].reply = "lost" =>
                  /\ \A j \in DOMAIN sent : i < j => sent[j].nonce > sent[i].nonce
                  /\ (pc \in AfterBalance /\ nonce # Null) => nonce > sent[i].nonce
        /\ \A i, j \in DOMAIN sent :
              (i < j /\ sent[i].reply # "rejected" /\ sent[j].reply # "rejected")
              => sent[i].nonce # sent[j].nonce

\* C4: the native-currency attempt never builds, signs or broadcasts a
\* transaction whose value, balance - 21000 * feePrice, is zero or negative,
\* with or without force.
C4_NativeValuePositive ==
    /\ (InEth /\ tx # NoTx) => tx.amount > 0
    /\ \A i \in DOMAIN sent : sent[i].asset = 0 => sent[i].amount > 0

\* C5: an attempt that observed a zero balance ends as skipped for
\* insufficient balance and goes through no later stage: nothing is built,
\* signed or broadcast for it.
C5_ZeroBalanceSkipped ==
    printed.balance = 0 =>
        /\ tx = NoTx
        /\ ~signed
        /\ \A i \in DOMAIN sent : sent[i].asset # printed.asset
        /\ printed.out # "" => printed.out = "no_balance"

\* the balance the node reported in the current attempt (the one printed)
Observed == printed.balance

\* C6: in sweep mode the transfer call of a token's transaction carries
\* exactly the balance the node reported in that same attempt, from the
\* draft to the broadcast.
C6_TokenAmountIsFreshBalance ==
    (InToken /\ tx # NoTx) =>
        /\ printed.asset = idx
        /\ tx.amount = Observed
        /\ tx.amount > 0

\* C6 witness: the second token's transaction is broadcast with the balance
\* read for it, which differs from the amount sent for the first token.
C6_Witness ==
    /\ InToken /\ idx = 2 /\ pc = "wait"
    /\ tx.amount = 2 * WeiPerEther
    /\ Len(sent) = 2
    /\ sent[1].asset = 1 /\ sent[1].amount = WeiPerEther
    /\ sent[2].amount = Observed

\* C7: a native-currency transaction has the fixed gas limit 21000, no gas
\* estimation is ever asked for it, and its value plus gas limit times the
\* fee price read in the attempt is exactly the observed balance.
C7_NativeValueIsBalanceLessFee ==
    /\ <<"estimate_gas", 0>> \notin netCalls
    /\ (InEth /\ tx # NoTx) =>
          /\ tx.gas = GasUnits
          /\ tx.gasPrice = gas_price
          /\ tx.amount = Observed - GasUnits * gas_price
          /\ tx.amount + tx.gas * tx.gasPrice = Observed

\* C7 witness: a native transaction built at fee price 2 has been broadcast.
C7_Witness ==
    /\ InEth /\ pc = "wait" /\ tx.gasPrice = 2
    /\ Observed = WeiPerEther
    /\ sent[Len(sent)].amount = WeiPerEther - 2 * GasUnits

\* the quantity asked for on the command line, as transfer_token compares it
Requested == ToWei(ParseFloat(argv[2]))

C8_WitnessSkip ==
    /\ InXfer /\ pc = "done"
    /\ Observed = WeiPerEther /\ Requested = 2 * WeiPerEther
    /\ printed.out = "no_balance"

C9_BadArgumentsNoNetwork ==
    (mode = "transfer" /\ printed.out \in {"usage", "not_found"}) =>
        /\ exit = 1
        /\ netCalls = {}

\* C10: a sweep run attempts the catalog's tokens one at a time in catalog
\* order, each once, then the native currency once, with the caller's force
\* flag; a run that has ended has made every one of these attempts.
C10_AttemptsInOrder ==
    mode = "sweep" =>
        /\ Len(attempts) <= Len(FullRun)
        /\ \A i \in DOMAIN attempts : attempts[i] = FullRun[i]
        /\ InEth => force = ForceFlag(argv)
        /\ (pc \in AfterBalance \cup {"entry", "balance"}) => attempts[Len(attempts)] = Asset
        /\ (Ended /\ Len(attempts) > 0) => attempts = FullRun

\* C11: a run with a required setting missing ends with status 1 without any
\* network call; a run whose endpoint is unreachable at start ends with
\* status 1 after the connectivity check alone: no asset is attempted, no
\* balance is asked for, nothing is built, signed or broadcast.
C11_ConfigAndConnectivityFatal ==
    /\ env # Required(mode) =>
          /\ netCalls = {}
          /\ pc \in {"start", "aborted"}
          /\ pc = "aborted" => (exit = 1 /\ printed.out = "config_error")
    /\ printed.out = "connect_error" =>
          /\ pc = "aborted" /\ exit = 1
          /\ netCalls = { <<"is_connected", 0>> }
          /\ attempts = <<>> /\ sent = <<>>
          /\ tx = NoTx /\ ~signed /\ balance = Null

\* C11 witness: a run without RPC_URL has aborted.
C11_Witness ==
    /\ "RPC_URL" \notin env
    /\ pc = "aborted" /\ exit = 1

\* C11 witness, unreachable endpoint: the connectivity check failed.
C11_WitnessUnreachable ==
    /\ env = Required(mode)
    /\ pc = "aborted" /\ printed.out = "connect_error"

\* the stage that follows a stage that succeeded: a token's draft has its gas
\* estimated, drain_eth has no such stage
NextStage(p) ==
    CASE p = "entry" -> "balance"
      [] p = "balance" -> "nonce"
      [] p = "nonce" -> "price"
      [] p = "price" -> "build"
      [] p = "build" -> IF InEth THEN "sign" ELSE "estimate"
      [] p = "estimate" -> "sign"
      [] p = "sign" -> "send"
      [] p = "send" -> "wait"
      [] OTHER -> "none"

\* what holds at each stage of an attempt
StagesInOrder ==
    /\ pc \in {"estimate", "sign", "send", "wait"} => tx # NoTx
    /\ pc \in {"sign", "send", "wait"} => tx.gas # Null
    /\ (pc \in {"sign", "send", "wait"} /\ ~InEth) => <<"estimate_gas", Asset>> \in netCalls
    /\ signed <=> pc \in {"send", "wait"}
    /\ tx_hash # Null <=> pc = "wait"
    /\ pc = "wait" =>
          /\ Len(sent) > 0
          /\ sent[Len(sent)].asset = Asset
          /\ sent[Len(sent)].reply = "hash"
    /\ pc \in {"entry", "balance", "nonce", "price", "build", "estimate", "sign", "send"} =>
          \A i \in DOMAIN sent : sent[i].asset # Asset
    /\ \A i, j \in DOMAIN sent : i < j => sent[i].asset # sent[j].asset
    /\ \A i, j \in DOMAIN attempts : i < j => attempts[i] # attempts[j]

\* a step of an attempt goes to the next stage or out of the attempt
StageStep ==
    (pc \in AfterBalance \cup {"entry", "balance"} /\ pc' # pc) =>
        \/ pc' = NextStage(pc)
        \/ pc' \in {"sleep", "done", "aborted"}

\* C12: within an attempt the stages follow one another in the order balance
\* check, build, gas estimation, sign, broadcast, confirm, each entered only
\* after the one before succeeded; nothing is signed without a draft with
\* its gas, nothing is broadcast unsigned, a receipt is awaited only after a
\* broadcast that returned a hash, and no asset is broadcast twice.
C12_StagesSequential == [](StagesInOrder) /\ [][StageStep]_vars

\* C12 witness: a token's attempt has gone through every stage to the wait.
C12_Witness ==
    /\ ~InEth /\ pc = "wait" /\ signed
    /\ tx.gas \in GasEstimates
    /\ sent[Len(sent)].reply = "hash"

\* C13: the force flag acts on the threshold check of the native attempt
\* only: a native balance of zero is skipped with or without force, a
\* non-zero one below one ether is skipped without force and goes on with
\* force; a token is skipped for its balance exactly when that balance is
\* zero, whatever the flag, which is not even read before the tokens are done.
C13_ForceOnlyLiftsThreshold ==
    mode = "sweep" =>
        /\ (printed.asset = 0 /\ Observed # Null) =>
              /\ Observed = 0 => (printed.out = "no_balance" /\ tx = NoTx)
              /\ (Observed > 0 /\ BelowOneEther(Observed) /\ ~ForceFlag(argv)) =>
                    (printed.out = "no_balance" /\ tx = NoTx /\ pc = "done")
              /\ (Observed > 0 /\ BelowOneEther(Observed) /\ ForceFlag(argv)) =>
                    printed.out # "no_balance"
              /\ ~BelowOneEther(Observed) => printed.out # "no_balance"
        /\ (printed.asset >= 1 /\ Observed # Null) =>
              (printed.out = "no_balance" <=> Observed = 0)
        /\ ~InEth => force = FALSE
        /\ InEth => force = ForceFlag(argv)

\* C13 witness: with force, a balance below one ether has passed the check.
C13_Witness ==
    /\ InEth /\ force /\ pc = "nonce"
    /\ balance = GasUnits /\ BelowOneEther(balance)

\* C13 witness, no force: the same balance has been skipped.
C13_WitnessSkip ==
    /\ InEth /\ ~force /\ pc = "done"
    /\ Observed = GasUnits /\ printed.out = "no_balance"

\* C14: an attempt that ended while building, estimating or signing has
\* submitted nothing, and the next attempt that reads a nonce for its draft
\* gets the nonce the failed attempt had.
C14_FailedAttemptKeepsNonce ==
    mode = "sweep" =>
        /\ printed.out \in {"build_error", "sign_error"} =>
              \A i \in DOMAIN sent : sent[i].asset # printed.asset
        /\ (pc \in AfterBalance /\ nonce # Null /\ lastFailed # Null) =>
              nonce = lastFailed

\* a decision is taken again: for the asset of the last decision, on the
\* balance of the last decision
DecidedAgain ==
    /\ planned # NoPlan
    /\ planned' # NoPlan
    /\ planned'.key = planned.key
    /\ planned'.balance = planned.balance

\* C15 as claimed: deciding again for the same asset on the same balance
\* gives the same decision and the same amount.
C15_PlanningIdempotent ==
    [][DecidedAgain =>
          /\ planned'.proceed = planned.proceed
          /\ planned'.amount = planned.amount]_vars

\* C15: deciding again for the same asset on the same balance gives the same
\* decision; it gives the same amount for a token, and for the native
\* currency when the fee price read is the same too.
C15_PlanningIdempotentAtFeePrice ==
    [][DecidedAgain =>
          /\ planned'.proceed = planned.proceed
          /\ (planned.key # "ETH" \/ planned'.feePrice = planned.feePrice) =>
                planned'.amount = planned.amount]_vars

\* the native currency is decided a second time, on the same balance
C15_Witness ==
    /\ InEth
    /\ pc = "sign"
    /\ planned.key = "ETH"
    /\ planned.proceed
    /\ planned.balance = balance
    /\ planned.feePrice = tx.gasPrice
    /\ planned.amount = tx.amount

\* a token is decided a second time, on the same balance
C15_WitnessToken ==
    /\ InToken
    /\ pc = "sign"
    /\ planned.key = PlanKey
    /\ planned.proceed
    /\ planned.balance = balance
    /\ planned.feePrice # tx.gasPrice
    /\ planned.amount = tx.amount

\* the receipt wait ends the attempt whatever it returns: nothing is sent
\* again, the pending transactions stay as they are, and the run is in the
\* pacing sleep of main (token) or at its end (native currency)
WaitEnds ==
    (pc = "wait" /\ pc' # pc) =>
        /\ pc' = IF InToken THEN "sleep" ELSE "done"
        /\ sent' = sent
        /\ pool' = pool
        /\ tx_hash' = Null /\ ~signed'

\* main after drain_token has returned: the pacing sleep, then the call for
\* the next entry of the catalog, or drain_eth after the last one
GoesOn ==
    (mode = "sweep" /\ pc' # pc) =>
        /\ pc = "sleep" => pc' = "main"
        /\ pc = "main" => attempts' = Append(attempts, IF idx < Len(catalog)
                                                        THEN idx + 1 ELSE 0)

\* C16: every sweep run ends; a receipt wait ends the attempt, whatever it
\* returns, without another submission and without touching the pending
\* transactions; main then attempts the next asset; main returns only after
\* the native-currency attempt, which is the last one.
C16_SweepTerminates ==
    /\ <>Ended
    /\ [][WaitEnds]_vars
    /\ [][GoesOn]_vars
    /\ [](pc = "done" => (idx = Len(catalog) + 1 /\ attempts[Len(attempts)] = 0))

\* the run has ended while a token transaction whose hash was returned is
\* still pending: its receipt wait timed out and the run went on
C16_Witness ==
    /\ pc = "done"
    /\ \E i \in DOMAIN sent :
          /\ sent[i].asset # 0
          /\ sent[i].reply = "hash"
          /\ \E p \in pool : p.id = i

\* the spellings of the model's symbols that differ in letter case only
CaseClasses == { {"TKA", "Tka", "tka"}, {"TKB", "tkb"}, {"tkc"} }

EqualIgnoringCase(a, b) == \E c \in CaseClasses : a \in c /\ b \in c

\* main of transfer.py has looked the symbol up and found an entry
Found == mode = "transfer" /\ pc \notin {"start", "connect", "chain_id", "main", "aborted"}

\* the entry main goes on with is the first match; no match, no entry
FirstMatch ==
    /\ Found =>
          /\ idx \in 1..Len(catalog)
          /\ EqualIgnoringCase(catalog[idx].symbol, argv[1])
          /\ \A j \in 1..(idx - 1) : ~EqualIgnoringCase(catalog[j].symbol, argv[1])
    /\ printed.out = "not_found" =>
          \A j \in 1..Len(catalog) : ~EqualIgnoringCase(catalog[j].symbol, argv[1])

\* C17: the entry main goes on with is the first one of the catalog whose
\* symbol is the requested one up to letter case; the look-up fails only when
\* no entry has such a symbol; the catalog stays as loaded.
C17_FirstMatchIgnoringCase ==
    /\ []FirstMatch
    /\ [][catalog' = catalog]_vars

\* the second entry is found, under another spelling than the requested one
C17_Witness ==
    /\ Found
    /\ idx = 2
    /\ catalog[2].symbol = "TKA"
    /\ argv[1] = "Tka"

\* two entries match and the first is taken, though the second is spelt as
\* requested
C17_WitnessFirst ==
    /\ Found
    /\ idx = 1
    /\ Len(catalog) = 2
    /\ catalog[1].symbol = "TKA"
    /\ catalog[2].symbol = "tka"
    /\ argv[1] = "tka"

\* the look-up fails
C17_WitnessNone ==
    /\ mode = "transfer"
    /\ printed.out = "not_found"
    /\ Len(catalog) = 2

\* the quantity asked for, in the smallest unit of the token that was found
RequestedUnits == ParseFloat(argv[2]) * DisplayScale(catalog[idx])

\* C18: in explicit-transfer mode the amount that is compared with the
\* balance, and that the transfer call carries, is the quantity asked for
\* times 10 to the decimals of the token, the scale its balance is shown in.
C18_AmountInTokenDecimals ==
    (Found /\ Observed # Null /\ ParseFloat(argv[2]) >= 0) =>
        /\ printed.out = "no_balance" <=> Observed < RequestedUnits
        /\ quantity # Null => quantity = RequestedUnits
        /\ tx # NoTx => tx.amount = RequestedUnits
        /\ \A i \in DOMAIN sent : sent[i].amount = RequestedUnits

\* the catalog entries without contract address
Addressless == { i \in 1..Len(catalog) : catalog[i].address = "none" }

\* no call to the node, no transaction and no local of an attempt exists for
\* an entry without address; all that is printed for it is the skip
SkippedUntouched ==
    \A i \in Addressless :
        /\ \A c \in netCalls : c[2] # i
        /\ \A k \in DOMAIN sent : sent[k].asset # i
        /\ printed.asset = i => printed.out = "no_address"
        /\ (~InEth /\ idx = i) =>
              /\ pc \in {"entry", "sleep", "main", "done"}
              /\ balance = Null /\ nonce = Null /\ gas_price = Null
              /\ tx = NoTx /\ ~signed /\ tx_hash = Null

\* what the program does at and after an entry without address: it returns,
\* and in sweep.py main sleeps and calls drain_token for the next entry, or
\* drain_eth after the last one
SkippedGoesOn ==
    (~InEth /\ idx \in Addressless /\ pc' # pc) =>
        CASE pc = "entry" -> /\ pc' = IF InXfer THEN "done" ELSE "sleep"
                             /\ printed'.out = "no_address"
          [] pc = "sleep" -> pc' = "main"
          [] pc = "main" -> /\ idx' = idx + 1
                            /\ attempts' = Append(attempts, IF idx < Len(catalog)
                                                             THEN idx + 1 ELSE 0)
          [] OTHER -> FALSE

\* C19: for a catalog entry without contract address no call is made to the
\* node, no nonce is read and no transaction is built, signed or broadcast;
\* sweep.py goes on to the next entry (or to the native currency).
C19_NoAddressSkipped ==
    /\ []SkippedUntouched
    /\ [][SkippedGoesOn]_vars

\* sweep.py has skipped the first entry and broadcast for the second
C19_Witness ==
    /\ mode = "sweep"
    /\ 1 \in Addressless
    /\ idx = 2
    /\ pc = "wait"
    /\ printed.balance # Null

\* transfer.py has ended at an entry without address
C19_WitnessTransfer ==
    /\ InXfer
    /\ pc = "done"
    /\ idx \in Addressless
    /\ printed.out = "no_address"
====
